---- MODULE Spec2Model ----
\* Relaxed-locate engine of watir_snake (Element handle orchestration):
\* element handles over a scope chain, the shared wait Timer, the polling
\* waits and the single-retry action wrapper Element._element_call, run
\* against a page (DOM) that changes while the program runs.
EXTENDS Integers, Sequences, FiniteSets, TLC

\* ---------------------------------------------------------------- bounds
MaxTime == 6         \* clock ticks the model follows
MaxTimeout == 2      \* the positive default_timeout that is tried
MaxGen == 2          \* native nodes a page position goes through
MaxDomEvents == 2    \* page mutations in one run
MaxCalls == 2        \* top-level operations in one run
MaxIndex == 3        \* the largest index of a selector, either sign
MaxCand == 3         \* candidates an index selects among

\* ---------------------------------------------------------------- state
VARIABLES
    relaxed_locate,   \* watir_snake.relaxed_locate
    default_timeout,  \* watir_snake.default_timeout
    now,              \* the clock (time())
    timer,            \* Wait.timer: [locked, end_time]
    dom,              \* the page: node at each handle's position
    hs,               \* the Element handles: [element, selector]
    stack,            \* call stack of the running operation (frames)
    ret,              \* value or exception handed from callee to caller
    obs,              \* what the running top-level operation did so far
    ncalls,           \* top-level operations started
    nevents,          \* page mutations so far
    sb                \* a selector build, index selection or comparison

vars == <<relaxed_locate, default_timeout, now, timer, dom, hs, stack, ret, obs,
          ncalls, nevents, sb>>

\* None: a handle with no cached native element (self.element is None).
\* A native element reference is the generation number of the node (>= 1).
None == 0

\* The scope chain: browser (0) <- handle 1 <- handle 2.
Browser == 0
Handles == {1, 2}
Leaf == 2

\* the handles a caller operates on
Targets == {Leaf}

\* self.query_scope
query_scope(h) == h - 1

Timeouts == {-1, 0, MaxTimeout}

\* ---------------------------------------------------------------- Timer
\* Timer(): created unset and unlocked.
Timer0 == [locked |-> FALSE, end_time |-> 0]

\* Timer(timeout=t) built at time n: deadline n + t, locked.
Timer(n, t) == [locked |-> TRUE, end_time |-> n + t]

\* Timer.reset(): deadline cleared, unlocked.
reset_timer(t) == Timer0

\* `Wait.timer.locked is None`: the source's test for "no wait holds the timer".
locked_is_None(t) == ~t.locked

\* ---------------------------------------------------------------- page
\* a native reference e of handle h no longer names an attached node
DetachedRef(d, h, e) == ~d[h].att \/ d[h].gen # e

\* Locator.locate(): the query run in the (resolved) scope; no match is an
\* empty result (None), not an error.
locator_locate(d, h) == IF d[h].att THEN d[h].gen ELSE None

\* ---------------------------------------------------------------- handle
\* Element.stale, read on a handle that holds a native element
stale_always(H, h) == TRUE
stale(H, h) == DetachedRef(dom, h, H[h].element)

\* Element.__init__: the native element given with the selector (the
\* 'element' key, popped) is cached; the rest is the selector (selector:
\* it is not empty). given, located: the native element the handle was built
\* from, and whether the cached one was obtained by locating.
Handle(el, sel) == [element |-> el, selector |-> sel, given |-> el, located |-> FALSE]

\* Element.stale read on a handle that holds no native element raises
\* Error('Can not check staleness of unused element')
stale_raises(H, h) == H[h].element = None

\* a read of Element.stale, noted: probed, and unused when it raised the Error
probe(H, o, h) ==
    [o EXCEPT !.probed[h] = TRUE, !.unused = @ \/ stale_raises(H, h)]

\* Element.reset
reset(H, h) == [H EXCEPT ![h].element = None, ![h].located = FALSE]

\* assert_exists, line 495: self.element = self.locate()
cache_emptying(H, h, el) ==
    [H EXCEPT ![h].element = el, ![h].located = el # None, ![h].selector = FALSE]
cache(H, h, el) == [H EXCEPT ![h].element = el, ![h].located = el # None]

\* assert_exists, lines 488 and 492: `self.element and ...` comes before
\* self.stale is read
probes_stale_always(H, h) == TRUE
probes_stale(H, h) == H[h].element # None

\* Result of an existence check: the handles after it, the observations
\* after it, and whether it returned (ok) or raised UnknownObjectException.
Res(H, o, ok) == [H |-> H, o |-> o, ok |-> ok]

\* Element.assert_element_found
assert_element_found(H, o, h) == Res(H, o, H[h].element # None)

RECURSIVE assert_exists(_, _, _)

\* Element._ensure_context: the scope must exist (the browser always does)
ensure_context(H, o, h) ==
    IF query_scope(h) = Browser THEN Res(H, o, TRUE)
    ELSE assert_exists(H, o, query_scope(h))

\* Element.locate: ensure the context, then run the locator's query.
\* el is the native element found (None when nothing matches); a failed
\* context raises before any query is made. badq records a query made
\* while the scope holds no native element.
locate_consuming(H, o, h) ==
    LET o1 == [o EXCEPT !.locs[h] = @ + 1]
        c  == ensure_context(H, o1, h)
    IN  IF ~c.ok THEN [H |-> c.H, o |-> c.o, ok |-> FALSE, el |-> None]
        ELSE [H |-> [c.H EXCEPT ![h].selector = FALSE], o |-> c.o,
              ok |-> TRUE, el |-> locator_locate(dom, h)]
locate(H, o, h) ==
    LET o1 == [o EXCEPT !.locs[h] = @ + 1]
        c  == ensure_context(H, o1, h)
    IN  IF ~c.ok THEN [H |-> c.H, o |-> c.o, ok |-> FALSE, el |-> None]
        ELSE [H |-> c.H,
              o |-> [c.o EXCEPT !.badq = @ \/ (query_scope(h) # Browser
                                      /\ c.H[query_scope(h)].element = None)],
              ok |-> TRUE, el |-> locator_locate(dom, h)]

\* Element.assert_exists
assert_exists_relocate(H, o, h) ==
    LET l == locate(H, o, h)
    IN  IF ~l.ok THEN Res(l.H, l.o, FALSE)
        ELSE assert_element_found(cache(l.H, h, l.el), l.o, h)

assert_exists(H, o, h) ==
    IF H[h].element # None /\ ~H[h].selector THEN
        LET c == ensure_context(H, o, h)
        IN  IF ~c.ok THEN c
            ELSE assert_element_found(
                     IF stale(c.H, h) THEN reset(c.H, h) ELSE c.H,
                     probe(c.H, c.o, h), h)
    ELSE LET o2 == IF probes_stale(H, h) THEN probe(H, o, h) ELSE o
         IN  IF H[h].element # None /\ ~stale(H, h) THEN Res(H, o2, TRUE)
             ELSE LET l == locate(H, o2, h)
                  IN  IF ~l.ok THEN Res(l.H, l.o, FALSE)
                      ELSE assert_element_found(cache(l.H, h, l.el), l.o, h)

\* Element.exists: assert_exists with UnknownObjectException turned into False
exists(H, o, h) == assert_exists(H, o, h)

\* ---------------------------------------------------------------- frames
\* One frame per running call. p: the procedure, pc: its position, h: the
\* handle it runs on. EC = Element._element_call (m: the action body,
\* chk: the existence check, att: attempt, nchk/nbody: checks and bodies run,
\* exc/val: what it will raise/return, bexc: what the body raised in this attempt,
\* why: the exception that started the second attempt,
\* nested: the timer was locked at entry, t0: the timer after entry).
\* WU = wait_until (pred: the predicate, dl: the deadline, own: this wait
\* installed the timer; oks: the attempts whose existence check returned,
\* bods: the attempts whose body was invoked). WFE/WFP/WFEn/AEn = wait_for_exists, wait_for_present,
\* wait_for_enabled, _assert_enabled.
F0 ==
    [p |-> "-", pc |-> "enter", h |-> 0, m |-> "-", chk |-> "-", pred |-> "-",
     att |-> 0, nchk |-> 0, nbody |-> 0, exc |-> "none", bexc |-> "none",
     why |-> "none", val |-> "nil", nested |-> FALSE, t0 |-> Timer0, dl |-> 0,
     own |-> FALSE, oks |-> {}, bods |-> {}]

Frame(p, h) == [F0 EXCEPT !.p = p, !.h = h]
ECFrame(h, m, chk) == [F0 EXCEPT !.p = "EC", !.h = h, !.m = m, !.chk = chk]
WUFrame(h, pred) == [F0 EXCEPT !.p = "WU", !.h = h, !.pred = pred]

Top == stack[Len(stack)]
SetTop(f) == [stack EXCEPT ![Len(stack)] = f]
Pop == SubSeq(stack, 1, Len(stack) - 1)

NoRet == [k |-> "none", v |-> "nil"]
Ok(v) == [k |-> "ok", v |-> v]
Exc(e) == [k |-> "exc", v |-> e]

\* The record of the running (or last) top-level operation: what it is
\* (op, h), when it ran (start, end), the timer lock, the node and the handle
\* when it started (locked0, att0, vis0, en0, scope0: the scope's node is
\* attached, cached0, stale0), whether the page changed while it ran, its
\* polling sleeps, predicate polls, locate() calls per handle, whether a query
\* ran in an unresolved scope (badq), the existence checks and bodies its
\* _element_call ran, what its body last raised, and its result; ro0: the
\* node was read-only when it started, val: the value it returned; probed:
\* the handles whose staleness was read, unused: a read of stale raised the
\* Error of an unused element.
Obs0 ==
    [op |-> "none", h |-> 0, start |-> 0, end |-> 0, locked0 |-> FALSE,
     att0 |-> FALSE, vis0 |-> FALSE, en0 |-> FALSE, scope0 |-> FALSE,
     cached0 |-> FALSE, stale0 |-> FALSE, changed |-> FALSE, sleeps |-> 0,
     polls |-> 0, locs |-> [h \in Handles |-> 0], badq |-> FALSE,
     probed |-> [h \in Handles |-> FALSE], unused |-> FALSE,
     checks |-> 0, bodies |-> 0, bexc |-> "none", result |-> "none",
     ro0 |-> FALSE, val |-> "nil"]

\* The callee returns r: the frame is popped; the caller finds r in ret. When
\* the popped frame was the operation itself, r is the operation's result.
Return(r, o) ==
    /\ stack' = Pop
    /\ ret' = IF Len(stack) = 1 THEN NoRet ELSE r
    /\ obs' = IF Len(stack) = 1
              THEN [o EXCEPT !.result = IF r.k = "ok" THEN "ok" ELSE r.v,
                             !.val = IF r.k = "ok" THEN r.v ELSE "nil",
                             !.end = now, !.checks = Top.nchk,
                             !.bodies = Top.nbody, !.bexc = Top.bexc]
              ELSE o

\* ---------------------------------------------------------------- driver
\* The action body method(): a driver call on self.element.
\*   a stale reference        -> StaleElementReferenceException
\*   enabled                  -> element.enabled
\*   click on a hidden node   -> ElementNotVisibleException
\*   displayed, readonly      -> the node's visibility, its readonly attribute
\*   send_keys                -> refused on a hidden or disabled node
method(m, h) ==
    LET e == hs[h].element
    IN  IF e = None THEN Exc("AttributeError")
        ELSE IF DetachedRef(dom, h, e) THEN Exc("Stale")
        ELSE IF m = "enabled" THEN Ok(IF dom[h].en THEN "true" ELSE "false")
        ELSE IF m = "displayed" THEN Ok(IF dom[h].vis THEN "true" ELSE "false")
        ELSE IF m = "readonly" THEN Ok(IF dom[h].ro THEN "true" ELSE "false")
        ELSE IF m = "send_keys" /\ ~dom[h].vis THEN Exc("ElementNotVisible")
        ELSE IF m = "send_keys" /\ ~dom[h].en THEN Exc("InvalidElementState")
        ELSE IF m \in {"click", "double_click"} /\ ~dom[h].vis
             THEN Exc("ElementNotVisible")
        ELSE Ok("nil")

\* ---------------------------------------------------------------- _element_call
\* the timer after the entry of _element_call
element_call_timer_always(t) == Timer(now, default_timeout)
element_call_timer(t) ==
    IF locked_is_None(t) THEN Timer(now, default_timeout) ELSE t

\* the timer after the finally block of _element_call
element_call_finally(t) ==
    IF locked_is_None(t) THEN reset_timer(t) ELSE t

\* `except StaleElementReferenceException` guards the first attempt only
handles_stale_always(att, e) == e = "Stale"
handles_any(att, e) == att = 1
handles_stale(att, e) == e = "Stale" /\ att = 1

\* lines 581-582 and 584-585: method() comes after exist_check() and is
\* reached only when exist_check() returned
check_passed_any(r) == TRUE
check_passed(r) == r.k = "ok"

\* the frame that runs the existence check chk
CheckFrame(chk, h) ==
    Frame(CASE chk = "wait_for_exists" -> "WFE"
            [] chk = "wait_for_present" -> "WFP"
            [] chk = "wait_for_writable" -> "WFW"
            [] OTHER -> "WFEn", h)

\* exist_check(): assert_exists is evaluated here; a wait_for_* check runs
\* as a callee
RunCheck(f) ==
    LET g == [f EXCEPT !.nchk = @ + 1, !.pc = "check"]
    IN  IF f.chk = "assert_exists"
        THEN LET r == assert_exists(hs, obs, f.h)
             IN  /\ hs' = r.H
                 /\ obs' = r.o
                 /\ stack' = SetTop(g)
                 /\ ret' = IF r.ok THEN Ok("nil") ELSE Exc("UnknownObject")
        ELSE /\ stack' = Append(SetTop(g), CheckFrame(f.chk, f.h))
             /\ ret' = NoRet
             /\ UNCHANGED <<hs, obs>>

\* Element._element_call, one step of the top frame
element_call ==
    /\ stack # <<>>
    /\ Top.p = "EC"
    /\ LET f == Top
       IN  IF f.pc = "enter" THEN
               LET t1 == element_call_timer(timer)
               IN  /\ timer' = t1
                   /\ RunCheck([f EXCEPT !.nested = timer.locked, !.t0 = t1,
                                         !.att = 1])
           ELSE IF f.pc = "check" THEN
               /\ timer' = timer
               /\ IF check_passed(ret)
                  THEN /\ stack' = SetTop([f EXCEPT
                                             !.pc = "body",
                                             !.oks = IF ret.k = "ok"
                                                     THEN @ \cup {f.att} ELSE @])
                       /\ ret' = NoRet
                       /\ UNCHANGED <<hs, obs>>
                  ELSE IF handles_stale(f.att, ret.v)
                  THEN RunCheck([f EXCEPT !.att = 2, !.why = ret.v])
                  ELSE /\ stack' = SetTop([f EXCEPT !.pc = "fin", !.exc = ret.v])
                       /\ ret' = NoRet
                       /\ UNCHANGED <<hs, obs>>
           ELSE IF f.pc = "body" THEN
               LET r == method(f.m, f.h)
                   g == [f EXCEPT !.nbody = @ + 1, !.bods = @ \cup {f.att},
                                  !.bexc = IF r.k = "exc" THEN r.v ELSE "none"]
               IN  /\ timer' = timer
                   /\ IF r.k = "ok"
                      THEN /\ stack' = SetTop([g EXCEPT !.pc = "fin", !.val = r.v])
                           /\ ret' = NoRet
                           /\ UNCHANGED <<hs, obs>>
                      ELSE IF handles_stale(f.att, r.v)
                      THEN RunCheck([g EXCEPT !.att = 2, !.why = r.v, !.bexc = "none"])
                      ELSE /\ stack' = SetTop([g EXCEPT !.pc = "fin", !.exc = r.v])
                           /\ ret' = NoRet
                           /\ UNCHANGED <<hs, obs>>
           ELSE /\ timer' = element_call_finally(timer)
                /\ hs' = hs
                /\ Return(IF f.exc # "none" THEN Exc(f.exc) ELSE Ok(f.val), obs)
    /\ UNCHANGED <<sb, relaxed_locate, default_timeout, now, dom, ncalls, nevents>>

\* ---------------------------------------------------------------- wait_until
\* The exception kind a polling wait takes for "not yet satisfied".
NotYetSatisfied == {"UnknownObject"}

\* the wait has no more retries: a timeout of zero or below never retries,
\* otherwise the deadline has passed
wait_expired(dl) == default_timeout <= 0 \/ now > dl

\* the timer when a wait_until begins: a locked timer is kept, otherwise
\* this wait installs now + timeout
wait_until_timer(t) == IF t.locked THEN t ELSE Timer(now, default_timeout)

\* wait_until leaves: it releases the timer it installed
LeaveWait(f, r, o) ==
    /\ timer' = IF f.own THEN reset_timer(timer) ELSE timer
    /\ now' = now
    /\ Return(r, o)

\* wait_until has the predicate's outcome r
AfterPredicate(f, r, o) ==
    IF r.k = "exc" /\ r.v \notin NotYetSatisfied THEN LeaveWait(f, r, o)
    ELSE IF r.k = "ok" /\ r.v = "true" THEN LeaveWait(f, Ok("nil"), o)
    ELSE IF wait_expired(f.dl) THEN LeaveWait(f, Exc("TimeoutError"), o)
    ELSE /\ stack' = SetTop([f EXCEPT !.pc = "sleep"])
         /\ ret' = NoRet
         /\ obs' = o
         /\ UNCHANGED <<timer, now>>

\* The call a predicate makes: the property enabled is
\* _element_call(.., self.assert_exists); readonly is an attribute read
\* through _element_call with the default check.
PredicateCall(h, pred) ==
    IF pred = "writable" THEN ECFrame(h, "readonly", "wait_for_exists")
    ELSE ECFrame(h, pred, "assert_exists")

\* `not self.readonly` of a readonly value r (an exception passes)
NotReadonly(r) ==
    IF r.k = "exc" THEN r
    ELSE Ok(IF r.v = "true" THEN "false" ELSE "true")

\* Waitable.wait_until(predicate) with the default timeout, one step of the
\* top frame: poll the predicate, sleep one interval between polls.
\* The predicate of wait_for_writable is
\* `not getattr(self, 'readonly', None) or not self.readonly`: readonly is
\* read once (ro1), and once more when the first read is truthy (ro2).
\* The callers write self.wait_until(self.exists) and
\* self.wait_until(self.enabled); exists and enabled are properties, and the
\* wait is taken to poll them as its predicate (wait/wait.py is not among the
\* sources): a poll is one evaluation of the property, and the evaluation
\* made at the call is the first poll.
wait_until ==
    /\ stack # <<>>
    /\ Top.p = "WU"
    /\ LET f == Top
       IN  IF f.pc = "enter" THEN
               LET t1 == wait_until_timer(timer)
               IN  /\ timer' = t1
                   /\ stack' = SetTop([f EXCEPT !.pc = "eval", !.own = ~timer.locked,
                                                !.dl = t1.end_time, !.t0 = t1,
                                                !.nested = timer.locked])
                   /\ UNCHANGED <<now, hs, obs, ret>>
           ELSE IF f.pc = "eval" THEN
               IF f.pred = "exists"
               THEN LET r == exists(hs, [obs EXCEPT !.polls = @ + 1], f.h)
                    IN  /\ hs' = r.H
                        /\ AfterPredicate(f, Ok(IF r.ok THEN "true" ELSE "false"), r.o)
               ELSE /\ stack' = Append(SetTop([f EXCEPT !.pc = IF f.pred = "writable"
                                                               THEN "ro1" ELSE "got"]),
                                       PredicateCall(f.h, f.pred))
                    /\ obs' = [obs EXCEPT !.polls = @ + 1]
                    /\ UNCHANGED <<now, timer, hs, ret>>
           ELSE IF f.pc = "got" THEN
               /\ hs' = hs
               /\ AfterPredicate(f, ret, obs)
           ELSE IF f.pc = "ro1" THEN
               IF ret.k = "ok" /\ ret.v = "true"
               THEN /\ stack' = Append(SetTop([f EXCEPT !.pc = "ro2"]),
                                       PredicateCall(f.h, f.pred))
                    /\ ret' = NoRet
                    /\ UNCHANGED <<now, timer, hs, obs>>
               ELSE /\ hs' = hs
                    /\ AfterPredicate(f, NotReadonly(ret), obs)
           ELSE IF f.pc = "ro2" THEN
               /\ hs' = hs
               /\ AfterPredicate(f, NotReadonly(ret), obs)
           ELSE /\ now < MaxTime
                /\ now' = now + 1
                /\ obs' = [obs EXCEPT !.sleeps = @ + 1]
                /\ stack' = SetTop([f EXCEPT !.pc = "eval"])
                /\ UNCHANGED <<timer, hs, ret>>
    /\ UNCHANGED <<sb, relaxed_locate, default_timeout, dom, ncalls, nevents>>

\* ---------------------------------------------------------------- wait_for_*
\* `if not watir_snake.relaxed_locate`: the waits poll only in relaxed mode
is_relaxed_always == TRUE
is_relaxed == relaxed_locate

\* TimeoutError from the waits becomes the failure kind named; anything else
\* the callee raised passes through
Translate(r, kind) ==
    IF r.k = "exc" /\ r.v = "TimeoutError" THEN Exc(kind)
    ELSE IF r.k = "exc" THEN r
    ELSE Ok("nil")

\* self.query_scope.wait_for_*() then self.wait_until(self.exists): the call
\* into the scope (the browser's is a no-op) or, after it, the poll
EnterScopeUnlessExpired(f) ==
    IF wait_expired(timer.end_time)
    THEN /\ stack' = Pop
         /\ ret' = Exc("UnknownObject")
    ELSE /\ stack' = Append(SetTop([f EXCEPT !.pc = "wait"]), WUFrame(f.h, "exists"))
         /\ ret' = NoRet

EnterScope(f) ==
    /\ stack' = IF query_scope(f.h) = Browser
                THEN Append(SetTop([f EXCEPT !.pc = "wait"]), WUFrame(f.h, "exists"))
                ELSE Append(SetTop([f EXCEPT !.pc = "scope"]),
                            Frame(f.p, query_scope(f.h)))
    /\ ret' = NoRet

\* the steps of wait_for_exists / wait_for_present after their entry
ScopedWait(f) ==
    IF f.pc = "scope" /\ ret.k = "ok"
    THEN /\ stack' = Append(SetTop([f EXCEPT !.pc = "wait"]), WUFrame(f.h, "exists"))
         /\ ret' = NoRet
         /\ UNCHANGED <<hs, obs>>
    ELSE /\ hs' = hs
         /\ Return(Translate(ret, "UnknownObject"), obs)

\* Element.wait_for_exists
wait_for_exists ==
    /\ stack # <<>>
    /\ Top.p = "WFE"
    /\ LET f == Top
           r == assert_exists(hs, obs, f.h)
       IN  IF f.pc = "enter" THEN
               IF ~is_relaxed
               THEN /\ hs' = r.H
                    /\ Return(IF r.ok THEN Ok("nil") ELSE Exc("UnknownObject"), r.o)
               ELSE IF exists(hs, obs, f.h).ok
               THEN /\ hs' = r.H
                    /\ Return(Ok("nil"), r.o)
               ELSE /\ hs' = r.H
                    /\ obs' = r.o
                    /\ EnterScope(f)
           ELSE ScopedWait(f)
    /\ UNCHANGED <<sb, relaxed_locate, default_timeout, now, timer, dom, ncalls, nevents>>

\* Element.wait_for_present
wait_for_present ==
    /\ stack # <<>>
    /\ Top.p = "WFP"
    /\ LET f == Top
           r == assert_exists(hs, obs, f.h)
       IN  IF f.pc = "enter" THEN
               IF ~is_relaxed
               THEN /\ hs' = r.H
                    /\ Return(IF r.ok THEN Ok("nil") ELSE Exc("UnknownObject"), r.o)
               ELSE /\ UNCHANGED <<hs, obs>>
                    /\ EnterScope(f)
           ELSE ScopedWait(f)
    /\ UNCHANGED <<sb, relaxed_locate, default_timeout, now, timer, dom, ncalls, nevents>>

\* Element.wait_for_enabled
wait_for_enabled ==
    /\ stack # <<>>
    /\ Top.p = "WFEn"
    /\ LET f == Top
       IN  IF f.pc = "enter" THEN
               /\ stack' = IF ~is_relaxed
                           THEN Append(SetTop([f EXCEPT !.pc = "assert"]),
                                       Frame("AEn", f.h))
                           ELSE Append(SetTop([f EXCEPT !.pc = "present"]),
                                       Frame("WFP", f.h))
               /\ ret' = NoRet
               /\ obs' = obs
           ELSE IF f.pc = "present" /\ ret.k = "ok" THEN
               /\ stack' = Append(SetTop([f EXCEPT !.pc = "wait"]),
                                  WUFrame(f.h, "enabled"))
               /\ ret' = NoRet
               /\ obs' = obs
           ELSE IF f.pc = "wait" THEN Return(Translate(ret, "ObjectDisabled"), obs)
           ELSE Return(ret, obs)
    /\ UNCHANGED <<sb, relaxed_locate, default_timeout, now, timer, dom, hs, ncalls,
                   nevents>>

\* Element._assert_enabled
assert_enabled ==
    /\ stack # <<>>
    /\ Top.p = "AEn"
    /\ LET f == Top
       IN  IF f.pc = "enter" THEN
               /\ stack' = Append(SetTop([f EXCEPT !.pc = "called"]),
                                  ECFrame(f.h, "enabled", "wait_for_exists"))
               /\ ret' = NoRet
               /\ obs' = obs
           ELSE Return(IF ret.k = "exc" THEN ret
                       ELSE IF ret.v = "false" THEN Exc("ObjectDisabled")
                       ELSE Ok("nil"), obs)
    /\ UNCHANGED <<sb, relaxed_locate, default_timeout, now, timer, dom, hs, ncalls,
                   nevents>>

\* Element.wait_for_writable
wait_for_writable ==
    /\ stack # <<>>
    /\ Top.p = "WFW"
    /\ LET f == Top
       IN  IF f.pc = "enter" THEN
               /\ stack' = IF ~is_relaxed
                           THEN Append(SetTop([f EXCEPT !.pc = "assert"]),
                                       Frame("AWr", f.h))
                           ELSE Append(SetTop([f EXCEPT !.pc = "enabled"]),
                                       Frame("WFEn", f.h))
               /\ ret' = NoRet
               /\ obs' = obs
           ELSE IF f.pc = "enabled" /\ ret.k = "ok" THEN
               /\ stack' = Append(SetTop([f EXCEPT !.pc = "wait"]),
                                  WUFrame(f.h, "writable"))
               /\ ret' = NoRet
               /\ obs' = obs
           ELSE IF f.pc = "wait" THEN Return(Translate(ret, "ObjectReadOnly"), obs)
           ELSE Return(ret, obs)
    /\ UNCHANGED <<sb, relaxed_locate, default_timeout, now, timer, dom, hs, ncalls,
                   nevents>>

\* Element._assert_writable: _assert_enabled(), then
\* `getattr(self, 'readonly', None) and self.readonly` (readonly is read
\* once, and once more when the first read is truthy)
assert_writable ==
    /\ stack # <<>>
    /\ Top.p = "AWr"
    /\ LET f == Top
       IN  IF f.pc = "enter" THEN
               /\ stack' = Append(SetTop([f EXCEPT !.pc = "enabled"]),
                                  Frame("AEn", f.h))
               /\ ret' = NoRet
               /\ obs' = obs
           ELSE IF f.pc \in {"enabled", "ro1"} /\ ret.k = "ok"
                   /\ (f.pc = "ro1" => ret.v = "true") THEN
               /\ stack' = Append(SetTop([f EXCEPT !.pc = IF f.pc = "enabled"
                                                          THEN "ro1" ELSE "ro2"]),
                                  PredicateCall(f.h, "writable"))
               /\ ret' = NoRet
               /\ obs' = obs
           ELSE Return(IF ret.k = "exc" THEN ret
                       ELSE IF f.pc = "ro2" /\ ret.v = "true"
                       THEN Exc("ObjectReadOnly")
                       ELSE Ok("nil"), obs)
    /\ UNCHANGED <<sb, relaxed_locate, default_timeout, now, timer, dom, hs, ncalls,
                   nevents>>

\* what Element.present makes of self.visible: UnknownObjectException is
\* turned into False, anything else passes
present_result_raises(r) == r
present_result(r) ==
    IF r.k = "exc" /\ r.v = "UnknownObject" THEN Ok("false") ELSE r

\* Element.present: self.visible is _element_call(.., self.assert_exists)
present ==
    /\ stack # <<>>
    /\ Top.p = "PR"
    /\ LET f == Top
       IN  IF f.pc = "enter" THEN
               /\ stack' = Append(SetTop([f EXCEPT !.pc = "visible"]),
                                  ECFrame(f.h, "displayed", "assert_exists"))
               /\ ret' = NoRet
               /\ obs' = obs
           ELSE Return(present_result(ret), obs)
    /\ UNCHANGED <<sb, relaxed_locate, default_timeout, now, timer, dom, hs, ncalls,
                   nevents>>

\* what Element.exists makes of assert_exists: True when it returns, False on
\* UnknownObjectException
exists_result(ok) == Ok(IF ok THEN "true" ELSE "false")

\* Element.exists, read by a caller
read_exists ==
    /\ stack # <<>>
    /\ Top.p = "EX"
    /\ LET r == exists(hs, obs, Top.h)
       IN  /\ hs' = r.H
           /\ Return(exists_result(r.ok), r.o)
    /\ UNCHANGED <<sb, relaxed_locate, default_timeout, now, timer, dom, ncalls, nevents>>

\* what a read of Element.stale gives: the Error of an unused element, or
\* whether the cached native element is detached
stale_result(H, h) ==
    IF stale_raises(H, h) THEN Exc("Error")
    ELSE Ok(IF stale(H, h) THEN "true" ELSE "false")

\* Element.stale, read by a caller
read_stale ==
    /\ stack # <<>>
    /\ Top.p = "ST"
    /\ hs' = hs
    /\ Return(stale_result(hs, Top.h), probe(hs, obs, Top.h))
    /\ UNCHANGED <<sb, relaxed_locate, default_timeout, now, timer, dom, ncalls, nevents>>

\* ---------------------------------------------------------------- operations
\* A caller starts an operation on handle h: f is its first frame.
Begin(op, h, f) ==
    /\ stack = <<>>
    /\ ncalls < MaxCalls
    /\ ncalls' = ncalls + 1
    /\ stack' = <<f>>
    /\ ret' = NoRet
    /\ obs' = [Obs0 EXCEPT !.op = op, !.h = h, !.start = now,
                           !.locked0 = timer.locked,
                           !.att0 = dom[h].att, !.vis0 = dom[h].vis,
                           !.en0 = dom[h].en, !.ro0 = dom[h].ro,
                           !.scope0 = IF query_scope(h) = Browser THEN TRUE
                                      ELSE dom[query_scope(h)].att,
                           !.cached0 = hs[h].element # None,
                           !.stale0 = hs[h].element # None
                                      /\ DetachedRef(dom, h, hs[h].element)]
    /\ UNCHANGED <<sb, relaxed_locate, default_timeout, now, timer, dom, hs, nevents>>

\* Element.click
click(h) == Begin("click", h, ECFrame(h, "click", "wait_for_enabled"))

\* Element.double_click
double_click(h) == Begin("double_click", h, ECFrame(h, "double_click", "wait_for_present"))

\* Element.attribute_value
attribute_value(h) == Begin("attribute_value", h, ECFrame(h, "get_attribute", "wait_for_exists"))

\* a caller's own element.wait_for_exists()
call_wait_for_exists(h) == Begin("wait_for_exists", h, Frame("WFE", h))

\* a caller's own element.wait_for_present()
call_wait_for_present(h) == Begin("wait_for_present", h, Frame("WFP", h))

\* Element.send_keys
send_keys_unguarded(h) == Begin("send_keys", h, ECFrame(h, "send_keys", "wait_for_enabled"))
send_keys(h) == Begin("send_keys", h, ECFrame(h, "send_keys", "wait_for_writable"))

\* a caller reads element.exists
call_exists(h) == Begin("exists", h, Frame("EX", h))

\* a caller reads element.present
call_present(h) == Begin("present", h, Frame("PR", h))

\* a caller reads element.stale
call_stale(h) == Begin("stale", h, Frame("ST", h))

\* ---------------------------------------------------------------- environment
\* The record of the last operation is dropped once the world moves on.
Forget(o) == IF stack = <<>> THEN Obs0 ELSE o

\* time passes between two operations (within one, the clock advances with
\* the polling sleeps; before the first one, the clock starts at 0)
Tick ==
    /\ stack = <<>>
    /\ ncalls \in 1 .. MaxCalls - 1
    /\ now < MaxTime
    /\ now' = now + 1
    /\ obs' = Forget(obs)
    /\ UNCHANGED <<sb, relaxed_locate, default_timeout, timer, dom, hs, stack, ret,
                   ncalls, nevents>>

\* The steps that look at the page: an existence check evaluated in place and
\* the action body. A page change anywhere else in a call cannot be told
\* from the same change right before the next of these steps.
ReadsPage(f) ==
    \/ f.p = "EC" /\ f.pc = "body"
    \/ f.p = "EC" /\ f.chk = "assert_exists" /\ f.pc = "enter"
    \/ f.p = "EC" /\ f.chk = "assert_exists" /\ f.pc = "check"
          /\ ret.k = "exc" /\ handles_stale(f.att, ret.v)
    \/ f.p = "WU" /\ f.pc = "eval" /\ f.pred = "exists"
    \/ f.p = "WFE" /\ f.pc = "enter"
    \/ f.p = "EX"
    \/ f.p = "ST"
    \/ f.p = "WFP" /\ f.pc = "enter" /\ ~is_relaxed

\* the page changes to d (the page before the first operation is the one
\* the run starts from; after the last one nobody looks)
PageEvent(d) ==
    /\ IF stack = <<>> THEN ncalls \in 1 .. MaxCalls - 1 ELSE ReadsPage(Top)
    /\ nevents < MaxDomEvents
    /\ nevents' = nevents + 1
    /\ dom' = d
    /\ obs' = IF stack # <<>> THEN [obs EXCEPT !.changed = TRUE] ELSE Forget(obs)
    /\ UNCHANGED <<sb, relaxed_locate, default_timeout, now, timer, hs, stack, ret, ncalls>>

\* a node appears at h's position (inside its scope's node); a leaf comes
\* with any visibility and enabledness
dom_appear(h) ==
    /\ ~dom[h].att
    /\ dom[h].gen < MaxGen
    /\ query_scope(h) # Browser => dom[query_scope(h)].att
    /\ \E v, e \in BOOLEAN :
          /\ h # Leaf => v /\ e
          /\ PageEvent([dom EXCEPT ![h] = [gen |-> dom[h].gen + 1, att |-> TRUE,
                                           vis |-> v, en |-> e, ro |-> dom[h].ro]])

\* the node at h's position is removed, with the nodes inside it
dom_remove(h) ==
    /\ dom[h].att
    /\ PageEvent([k \in Handles |->
                    IF k >= h THEN [dom[k] EXCEPT !.att = FALSE] ELSE dom[k]])

\* the leaf node is replaced by a new node with the same state
dom_replace ==
    /\ dom[Leaf].att
    /\ dom[Leaf].gen < MaxGen
    /\ PageEvent([dom EXCEPT ![Leaf].gen = @ + 1])

\* the leaf node is shown/hidden or enabled/disabled
dom_set ==
    /\ dom[Leaf].att
    /\ \E v, e \in BOOLEAN :
          /\ <<v, e>> # <<dom[Leaf].vis, dom[Leaf].en>>
          /\ PageEvent([dom EXCEPT ![Leaf].vis = v, ![Leaf].en = e])

\* the read-only leaf node becomes writable (it stays so)
dom_writable ==
    /\ dom[Leaf].att
    /\ dom[Leaf].ro
    /\ PageEvent([dom EXCEPT ![Leaf].ro = FALSE])

\* ---------------------------------------------------------------- selectors
\* A constraint value of a selector: its kind k ("absent": the key is not in
\* the selector, "str", "bool", "regex", "int"), its text s, its number n.
Val(k, s, n) == [k |-> k, s |-> s, n |-> n]
Absent == Val("absent", "", 0)
Str(s) == Val("str", s, 0)
Bool(b) == Val("bool", IF b THEN "True" ELSE "False", 0)
Regex(s) == Val("regex", s, 0)
Num(n) == Val("int", "", n)

\* the keys of the selectors that are built
Keys == {"tag_name", "class_name", "type", "id", "text", "index"}
PresentKeys(sel) == {key \in Keys : sel[key].k # "absent"}
Sel0 == [key \in Keys |-> Absent]

\* input types a text field is never located by
NON_TEXT_TYPES ==
    {"file", "radio", "checkbox", "submit", "reset", "image", "button",
     "hidden", "range", "color", "date", "datetime-local"}

\* regular expressions that are a plain literal (compiled to contains())
SimplePatterns == {"c"}

\* one predicate of the query: [key op s]
Pred(key, op, s) == [key |-> key, op |-> op, s |-> s]

\* the positional wrapper of the query: none, [n], [last()], [last()-n]
Wrap(t, n) == [t |-> t, n |-> n]
NoWrap == Wrap("none", 0)

\* the outcome of a build: k "ok" (a query: paths, predicates, wrapper),
\* "nothing" (None returned: not expressible) or "exc" (err raised, naming
\* named); tag / idx: the tag_name and the index went into the query; rem:
\* the residual selector; queries: backend calls made with the query; el: the
\* candidate selected (0: none); alts: the alternatives of a union query,
\* each a path with its predicates
Out0 ==
    [k |-> "none", err |-> "", named |-> "", paths |-> <<>>, preds |-> <<>>,
     wrap |-> NoWrap, tag |-> FALSE, idx |-> FALSE, rem |-> Sel0,
     queries |-> 0, el |-> 0, truthy |-> FALSE, alts |-> <<>>]
Raise(err, named) == [Out0 EXCEPT !.k = "exc", !.err = err, !.named = named]

\* AttributeExpressionCompiler, one plain attribute: equality on a string,
\* presence / absence on a boolean; a regular expression is not expressible
attribute_expression(key, v) ==
    CASE v.k = "str" -> <<Pred(key, "eq", v.s)>>
      [] v.k = "bool" -> <<Pred(key, IF v.s = "True" THEN "present" ELSE "absent", "")>>
      [] OTHER -> <<>>

\* class_name: a plain-literal regular expression degrades to contains()
class_expression(v) ==
    CASE v.k = "str" -> <<Pred("class_name", "contains", v.s)>>
      [] v.k = "regex" /\ v.s \in SimplePatterns -> <<Pred("class_name", "contains", v.s)>>
      [] OTHER -> <<>>

\* the type predicate of a text field
type_expression(v) ==
    CASE v.k = "absent" -> <<Pred("type", "none_or_not_excluded", "")>>
      [] v.k = "bool" /\ v.s = "True" -> <<Pred("type", "not_excluded", "")>>
      [] v.k = "bool" -> <<Pred("type", "absent", "")>>
      [] v.k = "str" -> <<Pred("type", "ci_eq", v.s)>>
      [] OTHER -> <<>>

\* index: the positional wrapper around the whole expression
index_wrapper_zero_based(v) ==
    CASE v.k # "int" -> NoWrap
      [] v.n >= 0 -> Wrap("pos", v.n)
      [] OTHER -> Wrap("last_minus", -v.n)
index_wrapper(v) ==
    CASE v.k # "int" \/ v.n = 0 -> NoWrap
      [] v.n > 0 -> Wrap("pos", v.n + 1)
      [] v.n = -1 -> Wrap("last", 0)
      [] OTHER -> Wrap("last_minus", -v.n - 1)

\* `type` values a text field may be located by
type_is_legal_any(v) == TRUE
type_is_legal(v) == ~(v.k = "str" /\ v.s \in NON_TEXT_TYPES)

\* the predicates a text field's selector compiles to, key by key
text_field_expression(key, v) ==
    CASE key = "class_name" -> class_expression(v)
      [] key = "type" -> type_expression(v)
      [] key = "id" -> attribute_expression(key, v)
      [] OTHER -> <<>>

\* text_field SelectorBuilder.build: (query, residual)
text_field_build(sel) ==
    IF sel.index.k \notin {"absent", "int"} THEN Raise("TypeError", sel.index.s)
    ELSE IF ~type_is_legal(sel.type) THEN Raise("LocatorException", sel.type.s)
    ELSE [Out0 EXCEPT
            !.k = "ok",
            !.paths = <<".//*">>,
            !.preds = <<Pred("tag_name", "local_name", "input")>>
                      \o text_field_expression("class_name", sel.class_name)
                      \o text_field_expression("type", sel.type)
                      \o text_field_expression("id", sel.id),
            !.wrap = index_wrapper(sel.index),
            !.idx = sel.index.k = "int",
            !.rem = [key \in Keys |->
                       IF key # "index" /\ sel[key].k # "absent"
                          /\ text_field_expression(key, sel[key]) = <<>>
                       THEN sel[key] ELSE Absent]]

\* row SelectorBuilder._build_wd_selector, line 11: `for selector in
\* selectors` runs over the keys of the mapping, which are strings
KeyKind(key) == "str"
row_any_pattern(sel) == \E key \in PresentKeys(sel) : KeyKind(key) = "regex"

\* xpath_builder.attribute_expression(None, selectors): the conjunction of
\* the attributes' predicates
RECURSIVE row_attribute_expression(_, _)
row_attribute_expression(sel, keys) ==
    IF keys = {} THEN <<>>
    ELSE LET key == CHOOSE x \in keys : TRUE
         IN  attribute_expression(key, sel[key])
             \o row_attribute_expression(sel, keys \ {key})

\* the truth value Python gives a constraint value
Truthy(v) ==
    CASE v.k = "absent" -> FALSE
      [] v.k = "str" -> v.s # ""
      [] v.k = "bool" -> v.s = "True"
      [] v.k = "int" -> v.n # 0
      [] OTHER -> TRUE

\* line 14: selectors.pop('tag_name', None) is there and true
has_tag_name_any(sel) == TRUE
has_tag_name(sel) == Truthy(sel.tag_name)

\* lines 17-20: the alternatives of the union, by the tag of the scope
row_expressions(scope) ==
    IF scope \in {"tbody", "tfoot", "thead"} THEN <<"./tr">>
    ELSE <<"./tr", "./body/tr", "./thead/tr", "./tfoot/tr">>

\* row SelectorBuilder._build_wd_selector(selectors) in a scope with tag scope
row_build_wd_selector(sel, scope) ==
    IF row_any_pattern(sel)
    THEN [Out0 EXCEPT !.k = "nothing", !.rem = sel]
    ELSE IF ~has_tag_name(sel) THEN Raise("Error", "tag_name")
    ELSE LET attr_expr == row_attribute_expression(sel, PresentKeys(sel) \ {"tag_name"})
             expressions == row_expressions(scope)
         IN  [Out0 EXCEPT
                !.k = "ok",
                !.paths = expressions,
                !.preds = attr_expr,
                !.alts = [j \in 1 .. Len(expressions) |->
                            [path |-> expressions[j], preds |-> attr_expr]],
                !.tag = TRUE]

\* where a row of a table is: a direct child of the scope, or a child of
\* one of its sections
RowPlaces == {"", "tbody", "thead", "tfoot"}

\* the XPath alternative that matches the rows of a place under the scope
path_of(place) ==
    CASE place = "" -> "./tr"
      [] place = "tbody" -> "./tbody/tr"
      [] place = "thead" -> "./thead/tr"
      [] OTHER -> "./tfoot/tr"

\* the places of the rows a built row query matches
matched_places(out) ==
    {place \in RowPlaces : \E j \in 1 .. Len(out.alts) : out.alts[j].path = path_of(place)}

\* ---------------------------------------------------------------- locator
\* The query's wrapper evaluated by the backend on n candidates in document
\* order (numbered 1..n): the candidate selected, 0 when there is none.
SelectByQuery(w, n) ==
    LET pos == CASE w.t = "none" -> 1
                 [] w.t = "pos" -> w.n
                 [] w.t = "last" -> n
                 [] OTHER -> n - w.n
    IN  IF pos \in 1 .. n THEN pos ELSE 0

\* Locator, step 5: the candidate at a (possibly negative, Python-style)
\* position of the filtered sequence; out of range is no match
locate_index_unchecked(n, i) == IF i >= 0 THEN i + 1 ELSE n + i + 1
locate_index(n, i) ==
    IF i \in 0 .. n - 1 THEN i + 1
    ELSE IF i < 0 /\ -i <= n THEN n + i + 1
    ELSE 0

\* the i-th member of the collection over the same n candidates
collection_member(n, i) == IF i \in 0 .. n - 1 THEN i + 1 ELSE 0

\* ---------------------------------------------------------------- equality
\* What is compared: an Element handle of a class with the native element
\* it resolves to (0: it is not found), or an object that is no Element.
Classes == {"CheckBox", "Input", "Div"}
Obj(cls, wd) == [cls |-> cls, wd |-> wd]
Obj0 == Obj("Div", 0)

\* isinstance(x, the class c): CheckBox is a subclass of Input
isinstance(x, c) == x.cls = c \/ (x.cls = "CheckBox" /\ c = "Input")

\* Element.wd of x: assert_exists, then the native element
wd(x) ==
    IF x.cls \notin Classes THEN Raise("AttributeError", "wd")
    ELSE IF x.wd = 0 THEN Raise("UnknownObject", "")
    ELSE [Out0 EXCEPT !.k = "ok", !.el = x.wd, !.truthy = TRUE]

\* Element.__eq__: `self.wd if isinstance(other, self.__class__) else other.wd`
eq(a, b) == IF isinstance(b, a.cls) THEN wd(a) ELSE wd(b)

\* ---------------------------------------------------------------- builds
\* sb: the operation (op), where it is (pc: "new", "built", "queried",
\* "done"), its inputs (sel, scope; n candidates, index i, folded: the index
\* is part of the query; a, b) and its outcome (out)
SB0 ==
    [op |-> "none", pc |-> "new", sel |-> Sel0, scope |-> "", n |-> 0, i |-> 0,
     folded |-> FALSE, a |-> Obj0, b |-> Obj0, out |-> Out0]

\* the selectors given to the text field builder
TextFieldSelectors ==
    {[Sel0 EXCEPT !.index = ix, !.type = ty, !.text = tx, !.class_name = cn,
                  !.id = id] :
        ix \in {Absent, Str("foo")} \cup {Num(n) : n \in -MaxIndex .. MaxIndex},
        ty \in {Absent, Bool(TRUE), Bool(FALSE), Str("checkbox"), Str("hidden"),
                Str("text")},
        tx \in {Absent, Str("Developer"), Regex("Dev")},
        cn \in {Absent, Str("c"), Regex("c"), Regex("c|d")},
        id \in {Absent, Bool(TRUE), Str("new_user"), Regex("user")}}

\* the selectors given to the row builder
RowSelectors ==
    {[Sel0 EXCEPT !.tag_name = tg, !.class_name = cn, !.id = id] :
        tg \in {Absent, Str("tr")},
        cn \in {Absent, Str("c"), Regex("c")},
        id \in {Absent, Bool(TRUE), Str("row_1"), Regex("row")}}

\* the element variables, which the builds leave alone
elemvars ==
    <<relaxed_locate, default_timeout, now, timer, dom, hs, stack, ret, obs,
      ncalls, nevents>>

\* text_field SelectorBuilder(...).build(selector)
build_text_field ==
    /\ sb.op = "build_text_field" /\ sb.pc = "new"
    /\ sb' = [sb EXCEPT !.pc = "built", !.out = text_field_build(sb.sel)]
    /\ UNCHANGED elemvars

\* row SelectorBuilder._build_wd_selector(selectors)
build_row ==
    /\ sb.op = "build_row" /\ sb.pc = "new"
    /\ sb' = [sb EXCEPT !.pc = "built",
                        !.out = row_build_wd_selector(sb.sel, sb.scope)]
    /\ UNCHANGED elemvars

\* the Locator runs the query that was built against the backend
run_query ==
    /\ sb.op \in {"build_text_field", "build_row"} /\ sb.pc = "built"
    /\ sb.out.k = "ok"
    /\ sb' = [sb EXCEPT !.pc = "queried", !.out.queries = @ + 1]
    /\ UNCHANGED elemvars

\* locating with an index among n candidates: folded into the query or
\* taken from the filtered sequence
locate_by_index ==
    /\ sb.op = "locate" /\ sb.pc = "new"
    /\ sb' = [sb EXCEPT !.pc = "done",
                        !.out = [Out0 EXCEPT
                                   !.k = "ok",
                                   !.el = IF sb.folded
                                          THEN SelectByQuery(index_wrapper(Num(sb.i)), sb.n)
                                          ELSE locate_index(sb.n, sb.i)]]
    /\ UNCHANGED elemvars

\* a == b
compare ==
    /\ sb.op = "eq" /\ sb.pc = "new"
    /\ sb' = [sb EXCEPT !.pc = "done", !.out = eq(sb.a, sb.b)]
    /\ UNCHANGED elemvars

\* ---------------------------------------------------------------- specification
NoNode == [gen |-> 0, att |-> FALSE, vis |-> TRUE, en |-> TRUE, ro |-> FALSE]
Node1(v, e) == [gen |-> 1, att |-> TRUE, vis |-> v, en |-> e, ro |-> FALSE]

\* pages a run starts from: a node is inside its scope's node
Pages ==
    {[h \in Handles |-> NoNode]}
    \cup {[h \in Handles |-> IF h = Leaf THEN n ELSE Node1(TRUE, TRUE)] :
            n \in {NoNode} \cup {Node1(v, e) : v, e \in BOOLEAN}}

Init ==
    /\ relaxed_locate \in BOOLEAN
    /\ default_timeout \in Timeouts
    /\ now = 0
    /\ timer = Timer0
    /\ dom \in Pages
    /\ hs = [h \in Handles |-> Handle(None, TRUE)]
    /\ stack = <<>>
    /\ ret = NoRet
    /\ obs = Obs0
    /\ ncalls = 0
    /\ nevents = 0
    /\ sb = SB0

Next ==
    \/ \E h \in Targets : click(h)
    \/ \E h \in Targets : double_click(h)
    \/ \E h \in Targets : attribute_value(h)
    \/ \E h \in Targets : call_wait_for_exists(h)
    \/ \E h \in Targets : call_wait_for_present(h)
    \/ element_call
    \/ wait_until
    \/ wait_for_exists
    \/ wait_for_present
    \/ wait_for_enabled
    \/ assert_enabled
    \/ Tick
    \/ \E h \in Handles : dom_appear(h)
    \/ \E h \in Handles : dom_remove(h)
    \/ dom_replace
    \/ dom_set

Spec == Init /\ [][Next]_vars

\* The write actions and the non-raising checks, on pages whose leaf node
\* may be read-only.
PagesW ==
    {[h \in Handles |-> IF h = Leaf THEN [n EXCEPT !.ro = r] ELSE s] :
        n \in {NoNode} \cup {Node1(v, e) : v, e \in BOOLEAN}, r \in BOOLEAN,
        s \in {Node1(TRUE, TRUE)}}
    \cup {[h \in Handles |-> NoNode]}

InitW ==
    /\ relaxed_locate \in BOOLEAN
    /\ default_timeout \in Timeouts
    /\ now = 0
    /\ timer = Timer0
    /\ dom \in PagesW
    /\ hs = [h \in Handles |-> Handle(None, TRUE)]
    /\ stack = <<>>
    /\ ret = NoRet
    /\ obs = Obs0
    /\ ncalls = 0
    /\ nevents = 0
    /\ sb = SB0

NextW ==
    \/ \E h \in Targets : send_keys(h)
    \/ \E h \in Targets : call_exists(h)
    \/ \E h \in Targets : call_present(h)
    \/ element_call
    \/ wait_until
    \/ wait_for_exists
    \/ wait_for_present
    \/ wait_for_enabled
    \/ wait_for_writable
    \/ assert_enabled
    \/ assert_writable
    \/ present
    \/ read_exists
    \/ Tick
    \/ \E h \in Handles : dom_appear(h)
    \/ \E h \in Handles : dom_remove(h)
    \/ dom_writable

SpecW == InitW /\ [][NextW]_vars

\* The selector builds, the index selection and the comparison of handles.
Comparands ==
    {Obj(c, w) : c \in Classes, w \in 0 .. 2} \cup {Obj("str", 0)}

InitB ==
    /\ relaxed_locate = FALSE
    /\ default_timeout = 0
    /\ now = 0
    /\ timer = Timer0
    /\ dom = [h \in Handles |-> NoNode]
    /\ hs = [h \in Handles |-> Handle(None, TRUE)]
    /\ stack = <<>>
    /\ ret = NoRet
    /\ obs = Obs0
    /\ ncalls = 0
    /\ nevents = 0
    /\ sb \in {[SB0 EXCEPT !.op = "build_text_field", !.sel = s] :
                 s \in TextFieldSelectors}
          \cup {[SB0 EXCEPT !.op = "build_row", !.sel = s, !.scope = t] :
                 s \in RowSelectors, t \in {"table", "tbody"}}
          \cup {[SB0 EXCEPT !.op = "locate", !.n = n, !.i = i, !.folded = f] :
                 n \in 0 .. MaxCand, i \in -(MaxIndex + 1) .. MaxIndex + 1,
                 f \in BOOLEAN}
          \cup {[SB0 EXCEPT !.op = "eq", !.a = a, !.b = b] :
                 a \in {x \in Comparands : x.cls \in Classes}, b \in Comparands}

NextB ==
    \/ build_text_field
    \/ build_row
    \/ run_query
    \/ locate_by_index
    \/ compare

SpecB == InitB /\ [][NextB]_vars

\* Handles built from a selector and handles built from a native element
\* (with an empty selector), in strict mode: the existence checks, an action
\* and the reads of stale, on a page whose nodes come, go and are replaced.
InitE ==
    /\ relaxed_locate = FALSE
    /\ default_timeout = 0
    /\ now = 0
    /\ timer = Timer0
    /\ dom \in Pages
    /\ hs \in {[h \in Handles |-> IF h = Leaf THEN l ELSE Handle(None, TRUE)] :
                 l \in {Handle(None, TRUE)}
                       \cup {Handle(dom[Leaf].gen, FALSE) : x \in {y \in {1} : dom[Leaf].att}}}
    /\ stack = <<>>
    /\ ret = NoRet
    /\ obs = Obs0
    /\ ncalls = 0
    /\ nevents = 0
    /\ sb = SB0

NextE ==
    \/ \E h \in Targets : attribute_value(h)
    \/ \E h \in Targets : call_exists(h)
    \/ \E h \in Targets : call_stale(h)
    \/ element_call
    \/ wait_for_exists
    \/ read_exists
    \/ read_stale
    \/ Tick
    \/ \E h \in Handles : dom_appear(h)
    \/ \E h \in Handles : dom_remove(h)
    \/ dom_replace

SpecE == InitE /\ [][NextE]_vars

\* ---------------------------------------------------------------- claims
\* the frames of the running calls of _element_call
ECFrames == {stack[i] : i \in {j \in DOMAIN stack : stack[j].p = "EC"}}

\* the top-level operation has ended
Done == stack = <<>> /\ obs.result # "none"

\* the operation is an action (it runs through _element_call)
IsAction == obs.op \in {"click", "double_click", "attribute_value"}

\* C1: a call of _element_call runs the existence check at most twice and the
\* body at most twice; the second attempt is started only by a
\* StaleElementReferenceException of the first, and a staleness raised in the
\* second attempt ends the call (it is what the call raises).
C1_BoundedRetry ==
    \A f \in ECFrames :
        /\ f.nchk <= 2 /\ f.nbody <= 2
        /\ f.nchk <= f.att /\ f.nbody <= f.att
        /\ f.att = 2 => f.why = "Stale"
        /\ f.att = 2 /\ f.bexc = "Stale" => f.pc = "fin" /\ f.exc = "Stale"

\* C1 witness: a staleness raised by the second body has ended the call
C1_Witness ==
    \E f \in ECFrames :
        f.att = 2 /\ f.nchk = 2 /\ f.nbody = 2 /\ f.pc = "fin" /\ f.exc = "Stale"

\* the time the operation took
Elapsed == obs.end - obs.start

\* C2: an operation on a handle whose cached native reference went stale
\* since the last one, on a page that holds still meanwhile: when the node is
\* there again the handle is re-resolved by exactly one locate() and the
\* operation is not a not-found (it succeeds on a visible, enabled node);
\* UnknownObjectException is raised only when the node is not there.
C2_OneReresolution ==
    (Done /\ obs.stale0 /\ ~obs.changed) =>
        /\ obs.att0 => /\ obs.locs[obs.h] = 1
                       /\ obs.result # "UnknownObject"
                       /\ obs.vis0 /\ obs.en0 => obs.result = "ok"
        /\ obs.result = "UnknownObject" => ~obs.att0

\* C2 witness: an action on a stale handle succeeded after one locate()
C2_Witness ==
    /\ Done /\ IsAction /\ obs.stale0 /\ ~obs.changed /\ obs.att0
    /\ obs.result = "ok" /\ obs.locs[obs.h] = 1

\* C3: when an outermost _element_call (entered with the timer unlocked) has
\* exited, the timer is unlocked again with no deadline.
C3_TimerReleasedOnExit ==
    (stack = <<>> /\ IsAction /\ ~obs.locked0) => timer = Timer0

\* C4: while a call of _element_call or wait_until is running, the timer is
\* the one it found locked at its entry (or installed there): the calls nested
\* in it neither replace it, nor move its deadline, nor reset it.
C4_NestedKeepsTimer ==
    \A i \in DOMAIN stack :
        (stack[i].p \in {"EC", "WU"} /\ stack[i].pc # "enter") =>
            /\ timer = stack[i].t0
            /\ timer.locked

\* C4 witness: a nested _element_call runs its body inside an outer one,
\* after time has passed since the outer one installed the deadline
C4_Witness ==
    \E i, j \in DOMAIN stack :
        /\ i < j
        /\ stack[i].p = "EC" /\ stack[j].p = "EC"
        /\ stack[j].nested /\ stack[j].pc = "body"
        /\ ~obs.locked0 /\ now > obs.start

\* C5: in relaxed mode with timeout T > 0 an operation that fails, started
\* through an action or by wait_for_exists / wait_for_present directly, took
\* at most T plus one polling interval.
C5_OneBudget ==
    (Done /\ relaxed_locate /\ default_timeout > 0 /\ obs.result # "ok") =>
        Elapsed <= default_timeout + 1

\* the predicate polls of an action whose every check succeeds at once
PollsOf(op) ==
    CASE op = "click" -> 3
      [] op = "double_click" -> 2
      [] OTHER -> 0

\* C6: in relaxed mode with a timeout of zero or below, an action on a node
\* that is there, visible and enabled (on a page that holds still) evaluates
\* each of its checks once, runs its body and succeeds.
C6_ChecksOnceWhenExpired ==
    (Done /\ IsAction /\ relaxed_locate /\ default_timeout <= 0
          /\ obs.att0 /\ obs.vis0 /\ obs.en0 /\ ~obs.changed) =>
        /\ obs.result = "ok"
        /\ obs.bodies = 1
        /\ obs.polls = PollsOf(obs.op)
        /\ obs.sleeps = 0

\* C6 witness: a click succeeded with a negative timeout
C6_Witness ==
    /\ Done /\ obs.op = "click" /\ relaxed_locate /\ default_timeout < 0
    /\ obs.att0 /\ obs.vis0 /\ obs.en0 /\ ~obs.changed
    /\ obs.result = "ok" /\ obs.polls = 3

\* C7: in relaxed mode with timeout T > 0 an action on a node that is never
\* there ends in UnknownObjectException, more than T after it started.
C7_FullTimeout ==
    (Done /\ IsAction /\ relaxed_locate /\ default_timeout > 0
          /\ ~obs.att0 /\ ~obs.changed) =>
        /\ obs.result = "UnknownObject"
        /\ Elapsed > default_timeout

\* C8: in relaxed mode no query for the child runs while its scope is
\* unresolved, and with T > 0 an operation on a child whose scope is never
\* there ends in UnknownObjectException, more than T after it started.
C8_ScopeFirst ==
    /\ ~obs.badq
    /\ (Done /\ relaxed_locate /\ default_timeout > 0
             /\ ~obs.scope0 /\ ~obs.changed) =>
           /\ obs.result = "UnknownObject"
           /\ Elapsed > default_timeout

\* C9: with relaxed locating off, an action on a node that is not there makes
\* one locate() call, no poll, no sleep and no second attempt, and raises
\* UnknownObjectException at once, whatever the timeout.
C9_StrictImmediate ==
    (Done /\ IsAction /\ ~relaxed_locate /\ ~obs.att0 /\ ~obs.changed) =>
        /\ obs.result = "UnknownObject"
        /\ obs.locs[obs.h] = 1
        /\ obs.polls = 0 /\ obs.sleeps = 0
        /\ obs.checks = 1 /\ obs.bodies = 0
        /\ Elapsed = 0

\* C9 witness: a click on an absent node failed at once under a positive timeout
C9_Witness ==
    /\ Done /\ obs.op = "click" /\ ~relaxed_locate /\ default_timeout > 0
    /\ ~obs.att0 /\ ~obs.changed /\ obs.result = "UnknownObject"
    /\ obs.locs[obs.h] = 1

\* C10: an exception of the body that is not a staleness signal ends the
\* call of _element_call: no second attempt is started by it, it is what the
\* call raises, and so what the action raises.
C10_OtherErrorsPropagate ==
    /\ \A f \in ECFrames :
          /\ f.why \in {"none", "Stale"}
          /\ f.bexc \notin {"none", "Stale"} =>
                 f.pc = "fin" /\ f.exc = f.bexc /\ f.nbody = f.att
    /\ (Done /\ IsAction /\ obs.bexc \notin {"none", "Stale"}) =>
           obs.result = obs.bexc

\* C10 witness: a click on a hidden node raised the driver's error
C10_Witness ==
    /\ Done /\ obs.op = "click" /\ obs.bexc = "ElementNotVisible"
    /\ obs.result = "ElementNotVisible" /\ obs.bodies = 1

\* C11: an operation started on a handle that holds a native element which
\* is not stale, on a page that holds still: no locate() is made on the
\* handle and its native element is the one it held (the node's, as it was
\* not stale); an action on a visible, enabled node succeeds with no polling
\* sleep and no time passed.
C11_CachedFastPath ==
    (Done /\ obs.cached0 /\ ~obs.stale0 /\ ~obs.changed) =>
        /\ obs.locs[obs.h] = 0
        /\ dom[obs.h].att /\ hs[obs.h].element = dom[obs.h].gen
        /\ (IsAction /\ obs.vis0 /\ obs.en0) =>
               obs.result = "ok" /\ obs.sleeps = 0 /\ Elapsed = 0

\* C11 witness: a relaxed click on a cached, present node went through
C11_Witness ==
    /\ Done /\ obs.op = "click" /\ relaxed_locate /\ default_timeout > 0
    /\ obs.cached0 /\ ~obs.stale0 /\ ~obs.changed /\ obs.vis0 /\ obs.en0
    /\ obs.result = "ok" /\ obs.locs[obs.h] = 0 /\ obs.polls > 0

\* C12: in relaxed mode with T > 0, an action guarded by wait_for_present or
\* wait_for_enabled, started with the timer unlocked on a node that exists
\* and stays hidden, does not run its body before the deadline has passed.
C12_PresentBeforeAction ==
    (Done /\ obs.op \in {"click", "double_click"} /\ relaxed_locate
          /\ default_timeout > 0 /\ ~obs.locked0
          /\ obs.att0 /\ ~obs.vis0 /\ ~obs.changed) =>
        (obs.bodies > 0 => Elapsed > default_timeout)

\* C13: in relaxed mode the body of send_keys never runs on a node that is
\* read-only; when the node (there, visible, enabled) was read-only at the
\* start and became writable while the action waited, the body runs once and
\* the action succeeds.
C13_WriteWaitsForWritable ==
    /\ \A f \in ECFrames :
          (relaxed_locate /\ f.m = "send_keys" /\ dom[f.h].ro) => f.nbody = 0
    /\ (Done /\ obs.op = "send_keys" /\ relaxed_locate
             /\ obs.att0 /\ obs.vis0 /\ obs.en0 /\ obs.ro0
             /\ dom[obs.h].att /\ dom[obs.h].vis /\ dom[obs.h].en) =>
           IF dom[obs.h].ro
           THEN obs.result = "ObjectReadOnly" /\ obs.bodies = 0
           ELSE obs.result = "ok" /\ obs.bodies = 1

\* C13 witness: send_keys slept while the node was read-only and went
\* through once it was writable
C13_Witness ==
    /\ Done /\ obs.op = "send_keys" /\ relaxed_locate /\ default_timeout > 0
    /\ obs.ro0 /\ ~dom[obs.h].ro /\ obs.sleeps > 0
    /\ obs.result = "ok" /\ obs.bodies = 1

\* C14: in relaxed mode, on a page that holds still, the failure of a write
\* action's wait names the first unmet precondition: UnknownObjectException
\* when the node is not present (there and visible), ObjectDisabledException
\* only when it is present and disabled, ObjectReadOnlyException only when it
\* is present, enabled and read-only.
C14_FirstUnmetPrecondition ==
    (Done /\ obs.op = "send_keys" /\ relaxed_locate /\ ~obs.changed) =>
        /\ ~(obs.att0 /\ obs.vis0) => obs.result = "UnknownObject"
        /\ obs.result = "ObjectDisabled" => obs.att0 /\ obs.vis0 /\ ~obs.en0
        /\ obs.result = "ObjectReadOnly" =>
               obs.att0 /\ obs.vis0 /\ obs.en0 /\ obs.ro0

\* C15: exists and present never raise UnknownObjectException: exists
\* returns a truth value, True exactly when the node is there; present
\* returns False when the node is not there or is hidden, True when it is
\* there and visible (the page holding still while they run).
C15_NonRaisingChecks ==
    /\ (Done /\ obs.op = "exists") =>
           /\ obs.result = "ok"
           /\ obs.val \in {"true", "false"}
           /\ ~obs.changed => (obs.val = "true" <=> obs.att0)
    /\ (Done /\ obs.op = "present") =>
           /\ obs.result # "UnknownObject"
           /\ ~obs.changed =>
                  /\ obs.result = "ok"
                  /\ obs.val = IF obs.att0 /\ obs.vis0 THEN "true" ELSE "false"

\* C15 witness: present returned False for a node that is not there
C15_Witness ==
    /\ Done /\ obs.op = "present" /\ ~obs.att0 /\ ~obs.changed
    /\ obs.result = "ok" /\ obs.val = "false"

\* a text field build that has run
TextFieldBuilt == sb.op = "build_text_field" /\ sb.pc # "new"

\* C16: the index of a selector compiles to a positional wrapper around the
\* whole expression: none for 0, [k+1] for k > 0, [last()] for -1 and
\* [last()-(k-1)] for -k with k > 1, which on any number of candidates selects
\* the candidate Python-style indexing selects; an index that is no integer
\* is a type-mismatch error.
C16_IndexCompilation ==
    (TextFieldBuilt /\ type_is_legal(sb.sel.type)) =>
        LET ix == sb.sel.index
        IN  CASE ix.k = "absent" -> sb.out.k = "ok" /\ sb.out.wrap = NoWrap
              [] ix.k = "int" ->
                    /\ sb.out.k = "ok"
                    /\ sb.out.wrap =
                         (CASE ix.n = 0 -> NoWrap
                            [] ix.n > 0 -> Wrap("pos", ix.n + 1)
                            [] ix.n = -1 -> Wrap("last", 0)
                            [] OTHER -> Wrap("last_minus", (-ix.n) - 1))
                    /\ \A n \in 1 .. MaxCand :
                         SelectByQuery(sb.out.wrap, n) = locate_index(n, ix.n)
              [] OTHER -> sb.out.k = "exc" /\ sb.out.err = "TypeError"

C16_Witness ==
    /\ TextFieldBuilt
    /\ sb.sel.index = Num(-3)
    /\ sb.out.wrap = Wrap("last_minus", 2)
    /\ SelectByQuery(sb.out.wrap, 3) = 1

\* C17: a text field selector whose `type` is one of the excluded input types
\* raises the locator-configuration error naming that type when it is built,
\* and no query is ever run for it.
C17_ExcludedTypeRejected ==
    (/\ TextFieldBuilt
     /\ sb.sel.index.k \in {"absent", "int"}
     /\ sb.sel.type.k = "str" /\ sb.sel.type.s \in NON_TEXT_TYPES) =>
        /\ sb.pc = "built"
        /\ sb.out.k = "exc"
        /\ sb.out.err = "LocatorException"
        /\ sb.out.named = sb.sel.type.s
        /\ sb.out.queries = 0

C17_Witness ==
    /\ TextFieldBuilt
    /\ sb.sel.type = Str("checkbox")
    /\ sb.out.err = "LocatorException"
    /\ sb.out.named = "checkbox"

\* a build that has returned its pair
Built ==
    /\ sb.op \in {"build_text_field", "build_row"}
    /\ sb.pc # "new"
    /\ sb.out.k \in {"ok", "nothing"}

\* the constraint of a key is part of the backend query
Encoded(key) ==
    CASE key = "tag_name" -> sb.out.tag
      [] key = "index" -> sb.out.idx
      [] OTHER -> \E j \in 1 .. Len(sb.out.preds) : sb.out.preds[j].key = key

\* the constraint of a key is in the residual selector, as it was given
Residual(key) == sb.out.rem[key] = sb.sel[key]

\* C18: the compiled pair partitions the constraints of the selector: every
\* key of the selector is either encoded in the backend query or present in
\* the residual selector, never both and never dropped.
C18_Partition ==
    Built => \A key \in PresentKeys(sb.sel) : Encoded(key) # Residual(key)

\* the same for the text field builder alone
C18_TextFieldPartition ==
    (Built /\ sb.op = "build_text_field") =>
        \A key \in PresentKeys(sb.sel) : Encoded(key) # Residual(key)

C18_TextFieldWitness ==
    /\ Built /\ sb.op = "build_text_field"
    /\ sb.sel.text = Str("Developer") /\ sb.sel.class_name = Regex("c")
    /\ sb.sel.id = Bool(TRUE)
    /\ Residual("text") /\ Encoded("class_name") /\ Encoded("id")

\* an index selection that has run
Located == sb.op = "locate" /\ sb.pc = "done"

\* C19: index selection over the n filtered candidates is positional in
\* document order: index i yields the i-th member of the collection over the
\* same candidates, -1 yields what n - 1 yields, and an index out of range
\* yields no match, not an error.
C19_PositionalIndex ==
    Located =>
        /\ sb.out.k = "ok"
        /\ (sb.i >= 0 => sb.out.el = collection_member(sb.n, sb.i))
        /\ (sb.i = -1 => sb.out.el = collection_member(sb.n, sb.n - 1))
        /\ (sb.i < 0 => sb.out.el = collection_member(sb.n, sb.n + sb.i))
        /\ ((sb.i >= sb.n \/ sb.i < -sb.n) => sb.out.el = 0)

C19_Witness ==
    /\ Located /\ ~sb.folded
    /\ sb.n = MaxCand /\ sb.i = -1
    /\ sb.out.el = MaxCand

\* a comparison that has run
Compared == sb.op = "eq" /\ sb.pc = "done"

\* C20: a == b is true exactly when b is an element of the class of a and
\* both resolve to the same native element; two handles of one class that
\* resolve to different native elements are unequal.
C20_EqualityByNative ==
    Compared =>
        ((sb.out.k = "ok" /\ sb.out.truthy)
            <=> (/\ isinstance(sb.b, sb.a.cls)
                 /\ sb.a.wd # 0
                 /\ sb.a.wd = sb.b.wd))

\* a row build that has run
RowBuilt == sb.op = "build_row" /\ sb.pc # "new"

\* the row selector holds a regular expression as a constraint value
HasPatternValue(sel) == \E key \in PresentKeys(sel) : sel[key].k = "regex"

\* C21: the row builder returns no query (None) whenever a constraint value
\* is a regular expression: the selector goes to the residual path whole and
\* no query is built from it.
C21_RowPatternNotCompiled ==
    (RowBuilt /\ HasPatternValue(sb.sel)) =>
        /\ sb.out.k = "nothing"
        /\ sb.out.rem = sb.sel
        /\ sb.pc = "built"

\* C22: a row selector without tag_name ends in the internal-consistency
\* Error and no query; a row selector with tag_name never raises it.
C22_TagNameRequired ==
    RowBuilt =>
        IF sb.sel.tag_name.k = "absent"
        THEN /\ sb.out.k = "exc" /\ sb.out.err = "Error"
             /\ sb.out.alts = <<>> /\ sb.out.queries = 0 /\ sb.pc = "built"
        ELSE sb.out.k # "exc"

C22_Witness ==
    /\ RowBuilt
    /\ sb.sel.tag_name = Absent /\ sb.sel.id = Str("row_1")
    /\ sb.out.err = "Error"

\* C25: in a scope that is no table section the row query matches the rows
\* that are direct children of the scope and the rows of each of its tbody,
\* thead and tfoot children; in a scope that is a section it matches the
\* direct children only; every alternative carries the same predicates.
C25_RowUnion ==
    (RowBuilt /\ sb.out.k = "ok") =>
        /\ matched_places(sb.out) =
              (IF sb.scope \in {"tbody", "thead", "tfoot"} THEN {""} ELSE RowPlaces)
        /\ \A j \in 1 .. Len(sb.out.alts) : sb.out.alts[j].preds = sb.out.preds

\* C23 (as stated): a selector that was compiled once is never handed to a
\* selector builder again: within one operation no handle runs locate(),
\* which hands its selector to a new builder, more than once.
C23_CompiledOnce == \A h \in Handles : obs.locs[h] <= 1

\* C23 (amended): locate() hands the handle's own selector to a new selector
\* builder at every call and the handle keeps it: a handle that has run
\* locate(), once or again on a polling retry or after staleness, still
\* holds its selector.
C23_SelectorCompiledAgain ==
    \A h \in Handles : obs.locs[h] >= 1 => hs[h].selector

C23_Witness ==
    /\ Done /\ obs.result = "ok"
    /\ obs.locs[Leaf] >= 2
    /\ hs[Leaf].selector /\ hs[Leaf].located

C26_NoRebind ==
    \A h \in Handles :
        (hs[h].given # None /\ ~hs[h].selector) => ~hs[h].located

\* a call of assert_exists on h in this state: its result
AssertExistsNow(h) ==
    assert_exists(hs, [Obs0 EXCEPT !.op = "assert_exists", !.h = h], h)

\* C27: assert_exists returns only with a native element cached that was
\* probed for staleness or located in that call, and it never reads stale on
\* a handle without a native element: the Error of an unused element comes
\* only from a caller's own read of stale on such a handle.
C27_AssertExistsPost ==
    /\ obs.unused => obs.op = "stale"
    /\ obs.result = "Error" => (obs.op = "stale" /\ hs[obs.h].element = None)
    /\ \A h \in Handles :
          LET r == AssertExistsNow(h)
          IN  /\ ~r.o.unused
              /\ r.ok => /\ r.H[h].element # None
                         /\ (r.o.probed[h] \/ r.o.locs[h] >= 1)

C27_Witness ==
    /\ Done /\ obs.op = "exists" /\ obs.val = "true"
    /\ hs[Leaf].given # None /\ hs[Leaf].element = hs[Leaf].given
    /\ obs.probed[Leaf] /\ ~obs.unused
    /\ AssertExistsNow(Leaf).ok


\* C28: within _element_call the body is invoked only right after an
\* existence check of the same attempt that returned: an attempt whose check
\* raised invokes no body, no body comes before the first check, and an
\* attempt invokes the body at most once.
C28_BodyOnlyAfterCheck ==
    \A f \in ECFrames :
        /\ f.bods \subseteq f.oks
        /\ (f.pc = "body" => f.att \in f.oks)
        /\ f.nbody = Cardinality(f.bods)
        /\ f.nbody <= f.nchk

C28_Witness ==
    \E f \in ECFrames :
        /\ f.pc = "fin" /\ f.att = 2 /\ f.nchk = 2
        /\ f.oks = {1} /\ f.bods = {1}
        /\ f.exc = "UnknownObject"

====
